---- MODULE Spec2Model ----
(***************************************************************************)
(* A model of the record store of the personal finance tracker             *)
(* (src/core/data_manager.py): the Transaction record and its validation,  *)
(* the CSV backing file as pandas and the csv module read and write it,    *)
(* and the DataManager operations on it.                                   *)
(*                                                                         *)
(* Representation.                                                         *)
(*  - A date text is a sequence of "-"-separated fields, each a sequence   *)
(*    of decimal digits: "28-01-2026" is <<<<2,8>>,<<0,1>>,<<2,0,2,6>>>>.  *)
(*  - An amount is an integer (the text of a number in the file).          *)
(*  - A description is a word, or "" for the empty text.  The words used   *)
(*    are not numeric; "NA" is one of the NA spellings of pandas.          *)
(*  - The backing file is [exists, header, rows]: rows are the cells as    *)
(*    written.  pandas.read_csv turns an empty cell, and a text cell that  *)
(*    is one of its NA spellings (NA_VALUES), into NaN in every column,    *)
(*    and DataFrame.to_csv writes NaN as an empty cell.                    *)
(*  - A file json.dump wrote is [exists, json, rows]: the array of         *)
(*    objects and the lines appended after its closing bracket.  The       *)
(*    backing file is one after export_to_json was given its own path      *)
(*    (SpecRead, which starts from the stores the constructor and valid    *)
(*    adds build and takes the operations that read).  The cells of a      *)
(*    table are read by the names of its header; a line appended to a      *)
(*    table whose header has not five columns is outside the model.        *)
(*  - SpecConc starts after each writer constructed its DataManager on     *)
(*    the empty store; the two reads and writes of racing constructors     *)
(*    are outside the model.                                               *)
(*  - df.loc[idx, column] = value stores the value whatever the dtype      *)
(*    pandas inferred for the column (the column is upcast if needed).     *)
(*  - The id history (removed, issued) is recorded under SpecIds, the      *)
(*    insertion history (inserted) under Spec.                             *)
(*  - Under SpecMig the migration of a legacy file runs statement by       *)
(*    statement and a statement that does I/O may fail; under the other    *)
(*    specifications the constructor is one step.                          *)
(*  - Under SpecQuery get_transactions runs on stores built by valid adds  *)
(*    and deletes.  A description and a search term are matched character  *)
(*    by character (Chars); a search term is a regular expression made of  *)
(*    literal characters and ".".                                          *)
(***************************************************************************)
EXTENDS Integers, Sequences, FiniteSets, TLC

(***************************************************************************)
(* Bounds of the model.                                                    *)
(***************************************************************************)
MaxRows == 3
MaxId == 3
MaxImport == 2
MaxLegacy == 2

(***************************************************************************)
(* constants.py                                                            *)
(***************************************************************************)
CSV_COLUMNS == <<"id", "date", "amount", "category", "description">>

LEGACY_COLUMNS == <<"date", "amount", "category", "description">>

Category == {"Income", "Expense"}

\* the missing value of pandas (float nan)
NaN == "NaN"

(***************************************************************************)
(* datetime.strptime(text, "%d-%m-%Y")                                     *)
(***************************************************************************)
RECURSIVE DigitsValue(_)
DigitsValue(s) ==
    IF s = <<>> THEN 0
    ELSE 10 * DigitsValue(SubSeq(s, 1, Len(s) - 1)) + s[Len(s)]

IsLeap(y) == (y % 4 = 0 /\ y % 100 # 0) \/ y % 400 = 0

DaysInMonth(m, y) ==
    IF m = 2 THEN (IF IsLeap(y) THEN 29 ELSE 28)
    ELSE IF m \in {4, 6, 9, 11} THEN 30 ELSE 31

\* a value that is no text: the null of a JSON file, None in Python
JsonNull == <<-1>>

\* the missing value of pandas in the date column, where the texts of the
\* model are sequences of digits
NaNDate == <<-2>>

\* %d is 3[0-1]|[1-2]\d|0[1-9]|[1-9], %m is 1[0-2]|0[1-9]|[1-9], %Y is \d\d\d\d;
\* an argument that is not a str raises TypeError
strptime(text) ==
    IF text = JsonNull \/ text = NaNDate
    THEN [err |-> "TypeError", y |-> 0, m |-> 0, d |-> 0]
    ELSE IF Len(text) # 3
    THEN [err |-> "ValueError", y |-> 0, m |-> 0, d |-> 0]
    ELSE
    LET d == DigitsValue(text[1])
        m == DigitsValue(text[2])
        y == DigitsValue(text[3])
    IN  IF /\ Len(text[1]) \in {1, 2} /\ d \in 1..31
           /\ Len(text[2]) \in {1, 2} /\ m \in 1..12
           /\ Len(text[3]) = 4 /\ y >= 1
           /\ d <= DaysInMonth(m, y)
        THEN [err |-> "none", y |-> y, m |-> m, d |-> d]
        ELSE [err |-> "ValueError", y |-> 0, m |-> 0, d |-> 0]

(***************************************************************************)
(* Transaction                                                             *)
(***************************************************************************)
\* Transaction.validate: "ok" or the error it raises, in the order of the
\* code: the ValueError of strptime becomes "Invalid date format", its
\* TypeError passes through
\* (variant: a zero amount passes)
validate_zero_ok(t) ==
    LET err == strptime(t.date).err
    IN  IF err = "TypeError" THEN "TypeError"
    ELSE IF err # "none" THEN "InvalidDate"
    ELSE IF t.amount < 0 THEN "InvalidAmount"
    ELSE IF t.category \notin Category THEN "InvalidCategory"
    ELSE "ok"

validate(t) ==
    LET err == strptime(t.date).err
    IN  IF err = "TypeError" THEN "TypeError"
    ELSE IF err # "none" THEN "InvalidDate"
    ELSE IF t.amount <= 0 THEN "InvalidAmount"
    ELSE IF t.category \notin Category THEN "InvalidCategory"
    ELSE "ok"

\* Transaction.to_dict, as csv.DictWriter writes it: the five cells of a row
to_dict(t) ==
    [id |-> t.id, date |-> t.date, amount |-> t.amount,
     category |-> t.category, description |-> t.description]

\* Transaction.from_dict: the constructor runs validate
from_dict(data) ==
    LET t == [id |-> data.id, date |-> data.date, amount |-> data.amount,
              category |-> data.category, description |-> data.description]
    IN  [err |-> validate(t), txn |-> t]

NoTxn == [id |-> 0, date |-> <<>>, amount |-> 0, category |-> "",
          description |-> ""]

(***************************************************************************)
(* The backing file, pandas.read_csv and DataFrame.to_csv                  *)
(***************************************************************************)
Missing == [exists |-> FALSE, header |-> <<>>, rows |-> <<>>]

ZeroBytes == [exists |-> TRUE, header |-> <<>>, rows |-> <<>>]

\* the texts pd.read_csv reads as a missing value (its default na_values)
NA_VALUES ==
    {"", "#N/A", "#N/A N/A", "#NA", "-1.#IND", "-1.#QNAN", "-NaN", "-nan",
     "1.#IND", "1.#QNAN", "<NA>", "N/A", "NA", "NULL", "NaN", "None", "n/a",
     "nan", "null"}

\* an empty cell, or one that holds one of these texts, is read as NaN
ReadCell(c) == IF c \in NA_VALUES THEN NaN ELSE c

\* the same for a cell of the date column
ReadDate(c) == IF c = <<>> THEN NaNDate ELSE c

\* NaN is written as an empty cell
WriteCell(c) == IF c = NaN THEN "" ELSE c

WriteDate(c) == IF c = NaNDate THEN <<>> ELSE c

\* every column is converted; the id and amount cells of the model are
\* numbers and are never empty
ReadRow(r) ==
    [r EXCEPT !.date = ReadDate(@), !.category = ReadCell(@),
              !.description = ReadCell(@)]

WriteRow(r) ==
    [r EXCEPT !.date = WriteDate(@), !.category = WriteCell(@),
              !.description = WriteCell(@)]

\* the file holds a table of comma-separated lines, not the text of
\* json.dump
HoldsTable(f) == "json" \notin DOMAIN f

\* the text of a date cell, "15-12-2025"
RECURSIVE DigitsText(_)
DigitsText(ds) ==
    IF ds = <<>> THEN "" ELSE ToString(Head(ds)) \o DigitsText(Tail(ds))

DateText(d) ==
    DigitsText(d[1]) \o "-" \o DigitsText(d[2]) \o "-" \o DigitsText(d[3])

\* the column names read_csv takes from a header line that is "[]" followed
\* by the cells of a row: an empty name is "Unnamed: 4", the second of two
\* equal names gets the suffix ".1"
HeaderNames(cells) ==
    << "[]" \o ToString(cells.id), DateText(cells.date),
       ToString(cells.amount), cells.category,
       IF cells.description = "" THEN "Unnamed: 4"
       ELSE IF cells.description = cells.category
       THEN cells.description \o ".1"
       ELSE cells.description >>

\* the line holds the cells in the order of CSV_COLUMNS; read_csv names
\* them after the header of the file, by position
Line(header, cells) ==
    LET pos(k) == CHOOSE i \in 1..Len(header) : header[i] = k
    IN  [k \in {header[i] : i \in 1..Len(header)} |->
            cells[CSV_COLUMNS[pos(k)]]]

\* pd.read_csv(self.csv_file). The text json.dump(data, f, indent=2) writes
\* ends with "]" and no newline. Of an array that holds objects the first
\* line "[" has one field and the line of the first key, which ends with a
\* comma, has two: ParserError (a ValueError). "[]" is the header line of
\* a table with one column and no rows; with lines appended, the header
\* line is "[]" and the first of them, and the others are the rows
read_csv(f) ==
    IF ~f.exists THEN [err |-> "FileNotFoundError", columns |-> <<>>, rows |-> <<>>]
    ELSE IF ~HoldsTable(f)
    THEN IF f.json # <<>>
         THEN [err |-> "ParserError", columns |-> <<>>, rows |-> <<>>]
         ELSE IF f.rows = <<>>
         THEN [err |-> "none", columns |-> <<"[]">>, rows |-> <<>>]
         ELSE [err |-> "none", columns |-> HeaderNames(f.rows[1]),
               rows |-> [i \in 1..Len(f.rows) - 1 |->
                            Line(HeaderNames(f.rows[1]),
                                 ReadRow(f.rows[i + 1]))]]
    ELSE IF f.header = <<>> THEN [err |-> "EmptyDataError", columns |-> <<>>, rows |-> <<>>]
    ELSE [err |-> "none", columns |-> f.header,
          rows |-> [i \in 1..Len(f.rows) |-> ReadRow(f.rows[i])]]

\* df.to_csv(self.csv_file, index=False)
to_csv(columns, rows) ==
    [exists |-> TRUE, header |-> columns,
     rows |-> [i \in 1..Len(rows) |-> WriteRow(rows[i])]]

RECURSIVE MaxOf(_)
MaxOf(S) ==
    LET x == CHOOSE v \in S : TRUE
    IN  IF S = {x} THEN x
        ELSE LET m == MaxOf(S \ {x}) IN IF x > m THEN x ELSE m

Ids(rows) == {rows[i].id : i \in 1..Len(rows)}

(***************************************************************************)
(* DataManager: the operations as functions of the backing file            *)
(***************************************************************************)
\* df.insert(0, "id", range(1, len(df) + 1))
insert_id(df) ==
    [err |-> df.err, columns |-> <<"id">> \o df.columns,
     rows |-> [i \in 1..Len(df.rows) |->
                  [id |-> i, date |-> df.rows[i].date,
                   amount |-> df.rows[i].amount,
                   category |-> df.rows[i].category,
                   description |-> df.rows[i].description]]]

\* DataManager._migrate_csv: ids 1..n in file order, the old file copied to
\* <file>.backup, the new table written over the file
migrate_csv(f) ==
    LET df == insert_id(read_csv(f))
    IN  [file |-> to_csv(df.columns, df.rows), backup |-> f, status |-> "ok"]

\* the statements of _migrate_csv in the order they run
\* (variant: the file is overwritten before it is copied)
migrate_steps_write_first == <<"read", "insert", "write", "copy">>

migrate_steps == <<"read", "insert", "copy", "write">>

\* what an interrupted write can leave of the content f: nothing, or the
\* header and the first rows
Truncations(f) ==
    {ZeroBytes} \cup {[exists |-> TRUE, header |-> f.header,
                        rows |-> SubSeq(f.rows, 1, k)] : k \in 0..Len(f.rows)}

\* DataManager(csv_file) yields an instance unless __init__ raises
\* (variant: the failure of the migration is swallowed)
constructed_swallowed(status) == TRUE

constructed(status) == status = "ok"

InColumns(name, columns) == \E i \in 1..Len(columns) : columns[i] = name

\* initialize_csv: the columns differ from CSV_COLUMNS and none is "id"
NeedsMigration(f) ==
    LET df == read_csv(f)
    IN  df.err = "none" /\ df.columns # CSV_COLUMNS
                       /\ ~InColumns("id", df.columns)

\* DataManager.initialize_csv: the file and <file>.backup after it, and
\* "ok" or the exception it raises; the ParserError of read_csv is not among
\* the two it catches
\* (variant: a file that is not empty is copied to the backup and numbered
\* again whether or not it has an id column)
initialize_csv_renumbers(f, bk) ==
    LET df == read_csv(f)
    IN  IF df.err \in {"FileNotFoundError", "EmptyDataError"}
        THEN [file |-> to_csv(CSV_COLUMNS, <<>>), backup |-> bk,
              status |-> "ok"]
        ELSE IF df.err = "ParserError"
        THEN [file |-> f, backup |-> bk, status |-> "ParserError"]
        ELSE IF df.columns # CSV_COLUMNS /\ ~InColumns("id", df.columns)
        THEN migrate_csv(f)
        ELSE [file |-> to_csv(df.columns, insert_id(df).rows), backup |-> f,
              status |-> "ok"]

initialize_csv(f, bk) ==
    LET df == read_csv(f)
    IN  IF df.err \in {"FileNotFoundError", "EmptyDataError"}
        THEN [file |-> to_csv(CSV_COLUMNS, <<>>), backup |-> bk,
              status |-> "ok"]
        ELSE IF df.err = "ParserError"
        THEN [file |-> f, backup |-> bk, status |-> "ParserError"]
        ELSE IF df.columns # CSV_COLUMNS /\ ~InColumns("id", df.columns)
        THEN migrate_csv(f)
        ELSE [file |-> f, backup |-> bk, status |-> "ok"]

\* the exception _get_next_id raises, or "none": the ParserError of
\* read_csv is not among the two it catches, and df["id"] of a table that
\* has rows and no id column is a KeyError
get_next_id_raises(f) ==
    LET df == read_csv(f)
    IN  IF df.err = "ParserError" THEN "ParserError"
        ELSE IF df.err = "none" /\ df.rows # <<>>
                /\ ~InColumns("id", df.columns)
        THEN "KeyError"
        ELSE "none"

\* DataManager._get_next_id: the id it returns
\* (variant: the number of rows plus one)
get_next_id_count(f) ==
    LET df == read_csv(f)
    IN  IF df.err # "none" THEN 1 ELSE Len(df.rows) + 1

\* (variant: one more than the id of the first row)
get_next_id_first(f) ==
    LET df == read_csv(f)
    IN  IF df.err # "none" THEN 1
        ELSE IF df.rows = <<>> THEN 1
        ELSE df.rows[1].id + 1

get_next_id(f) ==
    LET df == read_csv(f)
    IN  IF df.err # "none" THEN 1
        ELSE IF df.rows = <<>> THEN 1
        ELSE MaxOf(Ids(df.rows)) + 1

\* csv.DictWriter.writerow on the file opened in append mode: the line
\* goes after the last line of the table, or right after the text of
\* json.dump
\* (variant: the row is written before the existing rows)
append_row_front(f, cells) ==
    [exists |-> TRUE, header |-> f.header,
     rows |-> <<Line(f.header, cells)>> \o f.rows]

append_row(f, cells) ==
    IF HoldsTable(f)
    THEN [exists |-> TRUE, header |-> f.header,
          rows |-> Append(f.rows, Line(f.header, cells))]
    ELSE [f EXCEPT !.rows = Append(@, cells)]

\* DataManager.add_transaction(date, amount, category, description)
add_transaction(f, a) ==
    LET e == get_next_id_raises(f)
        t == [id |-> get_next_id(f), date |-> a.date, amount |-> a.amount,
              category |-> a.category, description |-> a.description]
        v == validate(t)
    IN  IF e # "none"
        THEN [file |-> f, status |-> e, txn |-> NoTxn]
        ELSE IF v # "ok"
        THEN [file |-> f, status |-> v, txn |-> NoTxn]
        ELSE [file |-> append_row(f, to_dict(t)), status |-> "ok", txn |-> t]

\* add_transaction up to the open of the file: _get_next_id reads the file
\* and Transaction(...) validates
add_transaction_read(f, a) ==
    LET e == get_next_id_raises(f)
        t == [id |-> get_next_id(f), date |-> a.date, amount |-> a.amount,
              category |-> a.category, description |-> a.description]
        v == validate(t)
    IN  IF e # "none" THEN [status |-> e, txn |-> NoTxn]
        ELSE IF v # "ok" THEN [status |-> v, txn |-> NoTxn]
        ELSE [status |-> "ok", txn |-> t]

\* add_transaction from the open of the file in append mode: the row of the
\* Transaction built before is written to the file as it is now
\* (variant: the id is read from the file again when the row is written)
add_transaction_append_fresh(f, t) ==
    append_row(f, to_dict([t EXCEPT !.id = get_next_id(f)]))

add_transaction_append(f, t) == append_row(f, to_dict(t))

\* the table has the five columns from_dict reads
HasColumns(columns) ==
    \/ columns = CSV_COLUMNS
    \/ \A i \in 1..Len(CSV_COLUMNS) : InColumns(CSV_COLUMNS[i], columns)

\* DataManager.get_transaction_by_id: status "ok" with found TRUE and the
\* Transaction, or with found FALSE (None); or the error raised: that of
\* from_dict, the ParserError of read_csv, which is not among the two
\* exceptions caught, or the KeyError of df["id"] or of from_dict on a
\* table that lacks a column
get_transaction_by_id(f, id) ==
    LET df == read_csv(f)
        hit == IF df.err # "none" THEN <<>>
               ELSE SelectSeq(df.rows, LAMBDA r : r.id = id)
    IN  IF df.err = "ParserError"
        THEN [status |-> "ParserError", found |-> FALSE, txn |-> NoTxn]
        ELSE IF df.err = "none" /\ ~InColumns("id", df.columns)
        THEN [status |-> "KeyError", found |-> FALSE, txn |-> NoTxn]
        ELSE IF hit = <<>> THEN [status |-> "ok", found |-> FALSE, txn |-> NoTxn]
        ELSE IF ~HasColumns(df.columns)
        THEN [status |-> "KeyError", found |-> FALSE, txn |-> NoTxn]
        ELSE LET c == from_dict(hit[1])
             IN  IF c.err = "ok"
                 THEN [status |-> "ok", found |-> TRUE, txn |-> c.txn]
                 ELSE [status |-> c.err, found |-> FALSE, txn |-> NoTxn]

\* DataManager.get_all_transactions: the Transactions in file order, or the
\* error the first invalid row raises, the ParserError of read_csv, or
\* the KeyError of from_dict on a table that lacks a column
get_all_transactions(f) ==
    LET df == read_csv(f)
        rows == IF df.err # "none" THEN <<>> ELSE df.rows
        made == [i \in 1..Len(rows) |-> from_dict(rows[i])]
        bad == {i \in 1..Len(rows) : made[i].err # "ok"}
    IN  IF df.err = "ParserError"
        THEN [status |-> "ParserError", txns |-> <<>>]
        ELSE IF rows # <<>> /\ ~HasColumns(df.columns)
        THEN [status |-> "KeyError", txns |-> <<>>]
        ELSE IF bad = {}
        THEN [status |-> "ok", txns |-> [i \in 1..Len(rows) |-> made[i].txn]]
        ELSE [status |-> made[CHOOSE i \in bad : \A j \in bad : i <= j].err,
              txns |-> <<>>]

\* the row after df.loc[idx, field] = value for every supplied field
Replaced(r, kw) ==
    [k \in DOMAIN r |-> IF k \in DOMAIN kw THEN kw[k] ELSE r[k]]

\* DataManager.update_transaction(transaction_id, **kw): kw holds the
\* supplied fields, a field passed as None is not in its domain; the
\* ValueError of the validation and of read_csv (ParserError) is caught
\* (False), the TypeError of a row whose date is NaN and the KeyError of
\* df["id"] are not
\* (variant: the updated row is saved without validation)
update_transaction_unchecked(f, id, kw) ==
    LET df == read_csv(f)
        rows == IF df.err # "none" THEN <<>> ELSE df.rows
        idx == {i \in 1..Len(rows) : rows[i].id = id}
        upd == [i \in 1..Len(rows) |->
                   IF i \in idx THEN Replaced(rows[i], kw) ELSE rows[i]]
    IN  IF idx = {} THEN [file |-> f, ok |-> FALSE, status |-> "ok"]
        ELSE [file |-> to_csv(df.columns, upd), ok |-> TRUE, status |-> "ok"]

update_transaction(f, id, kw) ==
    LET df == read_csv(f)
        rows == IF df.err # "none" THEN <<>> ELSE df.rows
        idx == {i \in 1..Len(rows) : rows[i].id = id}
        upd == [i \in 1..Len(rows) |->
                   IF i \in idx THEN Replaced(rows[i], kw) ELSE rows[i]]
        first == CHOOSE i \in idx : \A j \in idx : i <= j
        err == from_dict(upd[first]).err
    IN  IF df.err = "none" /\ ~InColumns("id", df.columns)
        THEN [file |-> f, ok |-> FALSE, status |-> "KeyError"]
        ELSE IF idx = {} THEN [file |-> f, ok |-> FALSE, status |-> "ok"]
        ELSE IF err = "TypeError"
        THEN [file |-> f, ok |-> FALSE, status |-> "TypeError"]
        ELSE IF err # "ok"
        THEN [file |-> f, ok |-> FALSE, status |-> "ok"]
        ELSE [file |-> to_csv(df.columns, upd), ok |-> TRUE, status |-> "ok"]

\* DataManager.delete_transaction(transaction_id): the ParserError of
\* read_csv and the KeyError of df["id"] are not caught
\* (variant: reports success whether or not a row was removed)
delete_transaction_always(f, id) ==
    LET df == read_csv(f)
        rows == IF df.err # "none" THEN <<>> ELSE df.rows
        kept == SelectSeq(rows, LAMBDA r : r.id # id)
    IN  [file |-> to_csv(CSV_COLUMNS, kept), ok |-> TRUE, status |-> "ok"]

delete_transaction(f, id) ==
    LET df == read_csv(f)
        rows == IF df.err # "none" THEN <<>> ELSE df.rows
        kept == SelectSeq(rows, LAMBDA r : r.id # id)
    IN  IF df.err = "ParserError"
        THEN [file |-> f, ok |-> FALSE, status |-> "ParserError"]
        ELSE IF df.err = "none" /\ ~InColumns("id", df.columns)
        THEN [file |-> f, ok |-> FALSE, status |-> "KeyError"]
        ELSE IF Len(kept) = Len(rows)
        THEN [file |-> f, ok |-> FALSE, status |-> "ok"]
        ELSE [file |-> to_csv(df.columns, kept), ok |-> TRUE, status |-> "ok"]

ItemKeys == {"date", "amount", "category", "description"}

\* DataManager.import_from_json: one add per item, in order; an item that
\* lacks a key (KeyError) or fails validation (ValueError) is skipped, any
\* other exception ends the import: status is "ok" and count the value
\* returned, or status is the exception and count the adds done before it
RECURSIVE import_from_json(_, _)
import_from_json(f, data) ==
    IF data = <<>> THEN [file |-> f, count |-> 0, status |-> "ok"]
    ELSE LET item == Head(data)
             r == IF ItemKeys \subseteq DOMAIN item
                  THEN add_transaction(f, [k \in ItemKeys |-> item[k]])
                  ELSE [file |-> f, status |-> "KeyError", txn |-> NoTxn]
             rest == import_from_json(r.file, Tail(data))
         IN  IF r.status = "TypeError"
             THEN [file |-> r.file, count |-> 0, status |-> "TypeError"]
             ELSE [file |-> rest.file,
                   count |-> rest.count + (IF r.status = "ok" THEN 1 ELSE 0),
                   status |-> rest.status]

(***************************************************************************)
(* DataManager.get_transactions                                            *)
(***************************************************************************)
\* the characters of a text; the texts of the model are the words of this
\* table, and a word outside it has no characters here
Chars(word) ==
    CASE word = "" -> <<>>
      [] word = " " -> <<" ">>
      [] word = "Salary" -> <<"S", "a", "l", "a", "r", "y">>
      [] word = "salary" -> <<"s", "a", "l", "a", "r", "y">>
      [] word = "Groceries" -> <<"G", "r", "o", "c", "e", "r", "i", "e", "s">>
      [] word = "Rent" -> <<"R", "e", "n", "t">>
      [] word = "rent" -> <<"r", "e", "n", "t">>
      [] word = "SAL" -> <<"S", "A", "L">>
      [] word = "R.nt" -> <<"R", ".", "n", "t">>
      [] word = "tax" -> <<"t", "a", "x">>
      [] word = "Food" -> <<"F", "o", "o", "d">>
      [] word = "Test" -> <<"T", "e", "s", "t">>
      [] word = "Test transaction" -> <<"T", "e", "s", "t", " ", "t", "r", "a", "n", "s", "a", "c", "t", "i", "o", "n">>
      [] word = "Test description" -> <<"T", "e", "s", "t", " ", "d", "e", "s", "c", "r", "i", "p", "t", "i", "o", "n">>
      [] word = "T1" -> <<"T", "1">>
      [] word = "T2" -> <<"T", "2">>
      [] word = "T3" -> <<"T", "3">>
      [] word = "Updated" -> <<"U", "p", "d", "a", "t", "e", "d">>
      [] word = "I" -> <<"I">>
      [] word = "E" -> <<"E">>
      [] word = "i" -> <<"i">>
      [] word = "e" -> <<"e">>
      [] word = "x" -> <<"x">>
      [] word = "X" -> <<"X">>
      [] word = "Income" -> <<"I", "n", "c", "o", "m", "e">>
      [] word = "Expense" -> <<"E", "x", "p", "e", "n", "s", "e">>
      [] word = "Savings" -> <<"S", "a", "v", "i", "n", "g", "s">>
      [] word = "NA" -> <<"N", "A">>
      [] word = "N/A" -> <<"N", "/", "A">>

\* string.ascii_lowercase and string.ascii_uppercase
LowerCase ==
    <<"a", "b", "c", "d", "e", "f", "g", "h", "i", "j", "k", "l", "m",
       "n", "o", "p", "q", "r", "s", "t", "u", "v", "w", "x", "y", "z">>

UpperCase ==
    <<"A", "B", "C", "D", "E", "F", "G", "H", "I", "J", "K", "L", "M",
       "N", "O", "P", "Q", "R", "S", "T", "U", "V", "W", "X", "Y", "Z">>

\* case=False (re.IGNORECASE): the letters compare without regard to case
Lower(c) ==
    IF \E i \in 1..26 : UpperCase[i] = c
    THEN LowerCase[CHOOSE i \in 1..26 : UpperCase[i] = c]
    ELSE c

\* re.search(pat, text, re.IGNORECASE) for a pattern of literal characters
\* and ".", which stands for any character
re_search(pat, text) ==
    \E k \in 0..(Len(text) - Len(pat)) :
        \A j \in 1..Len(pat) :
            pat[j] = "." \/ Lower(pat[j]) = Lower(text[k + j])

\* Series.str.contains(pat, case=False, na=False) on one cell: regex=True is
\* the default, NaN gives False
str_contains(cell, pat) ==
    cell # NaN /\ re_search(Chars(pat), Chars(cell))

\* the description column has the dtype object when a cell holds a text and
\* float64 when every cell is NaN; .str exists for object only
HasStrAccessor(rows) == \E i \in 1..Len(rows) : rows[i].description # NaN

\* Timestamp <= datetime: the order of the calendar
\* (variant: the order of the texts DD-MM-YYYY)
date_le_text(a, b) ==
    \/ a.d < b.d
    \/ a.d = b.d /\ a.m < b.m
    \/ a.d = b.d /\ a.m = b.m /\ a.y <= b.y

date_le(a, b) ==
    \/ a.y < b.y
    \/ a.y = b.y /\ a.m < b.m
    \/ a.y = b.y /\ a.m = b.m /\ a.d <= b.d

\* NaT, what pd.to_datetime makes of NaN; every comparison with it is False
NaT == [err |-> "NaT", y |-> 0, m |-> 0, d |-> 0]

\* pd.to_datetime(cell, format=DATE_FORMAT) on one cell of the date column
to_datetime(cell) == IF cell = NaNDate THEN NaT ELSE strptime(cell)

\* the keyword arguments of get_transactions that are given and, for
\* start_date, end_date, category and description_search, truthy
Given(q, k) ==
    /\ k \in DOMAIN q
    /\ k \in {"start_date", "end_date"} => q[k] # <<>>
    /\ k \in {"category", "description_search"} => q[k] # ""

\* DataManager.get_transactions: the rows of the DataFrame returned, with
\* the date column converted by pd.to_datetime, or the exception raised
get_transactions(f, q) ==
    LET df == read_csv(f)
        Raise(e) == [status |-> e, rows |-> <<>>]
        dated == [i \in 1..Len(df.rows) |->
                     [df.rows[i] EXCEPT !.date = to_datetime(@)]]
        s1 == IF Given(q, "start_date")
              THEN SelectSeq(dated, LAMBDA r :
                       r.date # NaT /\ date_le(strptime(q.start_date), r.date))
              ELSE dated
        s2 == IF Given(q, "end_date")
              THEN SelectSeq(s1, LAMBDA r :
                       r.date # NaT /\ date_le(r.date, strptime(q.end_date)))
              ELSE s1
        s3 == IF Given(q, "category")
              THEN SelectSeq(s2, LAMBDA r : r.category = q.category)
              ELSE s2
        s4 == IF Given(q, "description_search")
              THEN SelectSeq(s3, LAMBDA r :
                       str_contains(r.description, q.description_search))
              ELSE s3
        s5 == IF "min_amount" \in DOMAIN q
              THEN SelectSeq(s4, LAMBDA r : r.amount >= q.min_amount)
              ELSE s4
        s6 == IF "max_amount" \in DOMAIN q
              THEN SelectSeq(s5, LAMBDA r : r.amount <= q.max_amount)
              ELSE s5
    IN  IF df.err = "ParserError" THEN Raise("ParserError")
        ELSE IF df.err # "none" THEN [status |-> "ok", rows |-> <<>>]
        ELSE IF df.rows = <<>> THEN [status |-> "ok", rows |-> <<>>]
        ELSE IF ~InColumns("date", df.columns) THEN Raise("KeyError")
        ELSE IF \E i \in 1..Len(dated) : dated[i].date.err = "ValueError"
             THEN Raise("ValueError")
        ELSE IF Given(q, "start_date") /\ strptime(q.start_date).err # "none"
             THEN Raise("ValueError")
        ELSE IF Given(q, "end_date") /\ strptime(q.end_date).err # "none"
             THEN Raise("ValueError")
        ELSE IF Given(q, "description_search") /\ ~HasStrAccessor(df.rows)
             THEN Raise("AttributeError")
        ELSE [status |-> "ok", rows |-> s6]

(***************************************************************************)
(* DataManager.get_summary and get_category_breakdown                      *)
(***************************************************************************)
\* Series.sum() of the amount column
RECURSIVE SumAmount(_)
SumAmount(rows) ==
    IF rows = <<>> THEN 0 ELSE Head(rows).amount + SumAmount(Tail(rows))

NoSummary ==
    [total_income |-> 0, total_expense |-> 0, net_savings |-> 0,
     transaction_count |-> 0]

\* get_summary from the DataFrame df that get_transactions returned, or the
\* exception it raised
summary_of(r) ==
    LET income == SelectSeq(r.rows, LAMBDA x : x.category = "Income")
        expense == SelectSeq(r.rows, LAMBDA x : x.category = "Expense")
        total_income == IF income = <<>> THEN 0 ELSE SumAmount(income)
        total_expense == IF expense = <<>> THEN 0 ELSE SumAmount(expense)
    IN  IF r.status # "ok" THEN [status |-> r.status, summary |-> NoSummary]
        ELSE IF r.rows = <<>> THEN [status |-> "ok", summary |-> NoSummary]
        ELSE [status |-> "ok",
              summary |-> [total_income |-> total_income,
                           total_expense |-> total_expense,
                           net_savings |-> total_income - total_expense,
                           transaction_count |-> Len(r.rows)]]

\* DataManager.get_summary(start_date, end_date): the dict returned, or the
\* exception get_transactions raises
\* (variant: net_savings is the sum of the two totals)
get_summary_net_sum(f, q) ==
    LET r == get_transactions(f, q)
        income == SelectSeq(r.rows, LAMBDA x : x.category = "Income")
        expense == SelectSeq(r.rows, LAMBDA x : x.category = "Expense")
    IN  IF r.status # "ok" THEN [status |-> r.status, summary |-> NoSummary]
        ELSE IF r.rows = <<>> THEN [status |-> "ok", summary |-> NoSummary]
        ELSE [status |-> "ok",
              summary |-> [total_income |-> SumAmount(income),
                           total_expense |-> SumAmount(expense),
                           net_savings |-> SumAmount(income) + SumAmount(expense),
                           transaction_count |-> Len(r.rows)]]

get_summary(f, q) == summary_of(get_transactions(f, q))

\* get_category_breakdown from the DataFrame df that get_transactions
\* returned, or the exception it raised
breakdown_of(r) ==
    LET keys == {r.rows[i].category : i \in 1..Len(r.rows)} \ {NaN}
    IN  IF r.status # "ok" THEN [status |-> r.status, breakdown |-> <<>>]
        ELSE IF r.rows = <<>> THEN [status |-> "ok", breakdown |-> <<>>]
        ELSE [status |-> "ok",
              breakdown |-> [c \in keys |->
                  SumAmount(SelectSeq(r.rows, LAMBDA x : x.category = c))]]

\* DataManager.get_category_breakdown(start_date, end_date):
\* df.groupby("category")["amount"].sum().to_dict(), {} for an empty df; a
\* row whose category is NaN is in no group
\* (variant: every Category has a key, 0 for one without rows)
get_category_breakdown_zeros(f, q) ==
    LET r == get_transactions(f, q)
        keys == ({r.rows[i].category : i \in 1..Len(r.rows)} \ {NaN})
                    \cup Category
    IN  IF r.status # "ok" THEN [status |-> r.status, breakdown |-> <<>>]
        ELSE IF r.rows = <<>> THEN [status |-> "ok", breakdown |-> <<>>]
        ELSE [status |-> "ok",
              breakdown |-> [c \in keys |->
                  SumAmount(SelectSeq(r.rows, LAMBDA x : x.category = c))]]

get_category_breakdown(f, q) == breakdown_of(get_transactions(f, q))

(***************************************************************************)
(* DataManager.backup_data and export_to_json                              *)
(***************************************************************************)
\* a path is the sequence of its parts; the backing file is at CsvPath
CsvPath == <<"finance_data.csv">>

\* backup_path is None
NoPath == <<>>

\* datetime.now().strftime("%Y%m%d_%H%M%S")
Stamps == {"20261029_120000"}

GivenPaths == {<<"copy.csv">>}

JsonPaths == {<<"out.json">>}

ExcelPaths == {<<"export.xlsx">>}

OutPaths ==
    GivenPaths \cup JsonPaths \cup ExcelPaths
        \cup {CsvPath \o <<".backup_", t>> : t \in Stamps}

\* DataManager.backup_data(backup_path) at the time now: shutil.copy of the
\* backing file to the path, which is returned; shutil.copy raises
\* SameFileError when the path is that of the backing file
\* (variant: the header is copied and the rows are not)
backup_data_header_only(f, path, now) ==
    LET target == IF path = NoPath THEN CsvPath \o <<".backup_", now>>
                  ELSE path
    IN  IF ~f.exists
        THEN [status |-> "FileNotFoundError", path |-> NoPath, copy |-> Missing,
              file |-> f]
        ELSE IF target = CsvPath
        THEN [status |-> "SameFileError", path |-> NoPath, copy |-> Missing,
              file |-> f]
        ELSE [status |-> "ok", path |-> target,
              copy |-> [f EXCEPT !.rows = <<>>], file |-> f]

backup_data(f, path, now) ==
    LET target == IF path = NoPath THEN CsvPath \o <<".backup_", now>>
                  ELSE path
    IN  IF ~f.exists
        THEN [status |-> "FileNotFoundError", path |-> NoPath, copy |-> Missing,
              file |-> f]
        ELSE IF target = CsvPath
        THEN [status |-> "SameFileError", path |-> NoPath, copy |-> Missing,
              file |-> f]
        ELSE [status |-> "ok", path |-> target, copy |-> f, file |-> f]

\* DataManager.export_to_json(output_path): json.dump of the to_dict of
\* every Transaction get_all_transactions returns. output_path is opened
\* for writing after they are read; when it is the path of the backing
\* file the array replaces the table
export_to_json(f, output_path) ==
    LET r == get_all_transactions(f)
        data == [i \in 1..Len(r.txns) |-> to_dict(r.txns[i])]
        text == [exists |-> TRUE, json |-> data, rows |-> <<>>]
    IN  IF r.status # "ok"
        THEN [status |-> r.status, written |-> Missing, file |-> f]
        ELSE [status |-> "ok", written |-> text,
              file |-> IF output_path = CsvPath THEN text ELSE f]

\* DataManager.export_to_excel(output_path): the table read_csv gives, the
\* date column converted by pd.to_datetime unless the table has no rows,
\* written as one sheet; NaN and NaT are written as empty cells. The
\* errors of read_csv and of the conversion are not caught, and the
\* backing file is not written
export_to_excel(f) ==
    LET df == read_csv(f)
        dated == [i \in 1..Len(df.rows) |->
                     [df.rows[i] EXCEPT !.date = to_datetime(@),
                                        !.category = WriteCell(@),
                                        !.description = WriteCell(@)]]
    IN  IF df.err # "none"
        THEN [status |-> df.err, written |-> Missing, file |-> f]
        ELSE IF df.rows # <<>> /\ ~InColumns("date", df.columns)
        THEN [status |-> "KeyError", written |-> Missing, file |-> f]
        ELSE IF \E i \in 1..Len(dated) : dated[i].date.err = "ValueError"
        THEN [status |-> "ValueError", written |-> Missing, file |-> f]
        ELSE [status |-> "ok",
              written |-> [exists |-> TRUE, columns |-> df.columns,
                           sheet |-> dated],
              file |-> f]

(***************************************************************************)
(* The front ends: data_entry.py, main.add_transaction and                 *)
(* FinanceTrackerGUI.add_transaction                                       *)
(***************************************************************************)
\* the decimal digits of a number, without leading zeros
RECURSIVE Decimal(_)
Decimal(n) == IF n < 10 THEN <<n>> ELSE Append(Decimal(n \div 10), n % 10)

\* datetime.strftime(DATE_FORMAT): day and month in two digits; %Y is the
\* year as the C library prints it, without leading zeros (a year below
\* 1000 comes out in fewer than four digits, which strptime rejects)
strftime(dt) ==
    << <<dt.d \div 10, dt.d % 10>>, <<dt.m \div 10, dt.m % 10>>,
       Decimal(dt.y) >>

CATEGORY_SHORTCUTS == [I |-> "Income", E |-> "Expense"]

\* str.upper on the characters of an answer to the category prompt
Upper(cs) ==
    [j \in 1..Len(cs) |->
        IF \E i \in 1..26 : LowerCase[i] = cs[j]
        THEN UpperCase[CHOOSE i \in 1..26 : LowerCase[i] = cs[j]]
        ELSE cs[j]]

\* str.strip on the texts of the forms: " " is the only one with blanks
strip(w) == IF w = " " THEN "" ELSE w

\* the getters of data_entry.py read the lines the user types, one per
\* prompt: each returns its value and the lines not yet read
RECURSIVE get_date(_, _, _)
get_date(lines, allow_default, today) ==
    LET date_str == Head(lines)
    IN  IF allow_default /\ date_str = <<>>
        THEN [value |-> strftime(strptime(today)), rest |-> Tail(lines)]
        ELSE IF strptime(date_str).err = "none"
        THEN [value |-> strftime(strptime(date_str)), rest |-> Tail(lines)]
        ELSE get_date(Tail(lines), allow_default, today)

RECURSIVE get_amount(_)
get_amount(lines) ==
    IF Head(lines) <= 0 THEN get_amount(Tail(lines))
    ELSE [value |-> Head(lines), rest |-> Tail(lines)]

RECURSIVE get_category(_)
get_category(lines) ==
    LET category == Upper(Chars(Head(lines)))
        keys == {k \in DOMAIN CATEGORY_SHORTCUTS : Chars(k) = category}
    IN  IF keys # {}
        THEN [value |-> CATEGORY_SHORTCUTS[CHOOSE k \in keys : TRUE],
              rest |-> Tail(lines)]
        ELSE get_category(Tail(lines))

get_description(lines) == [value |-> Head(lines), rest |-> Tail(lines)]

\* main.add_transaction(data_manager): the ValueError of the store is
\* printed
cli_add_transaction(f, lines, today) ==
    LET date == get_date(lines, TRUE, today)
        amount == get_amount(date.rest)
        category == get_category(amount.rest)
        description == get_description(category.rest)
    IN  add_transaction(f, [date |-> date.value, amount |-> amount.value,
                            category |-> category.value,
                            description |-> description.value])

\* FinanceTrackerGUI.add_transaction: the texts of the form, stripped; every
\* exception of the store is shown in a message box
gui_add_transaction(f, form) ==
    add_transaction(f, [date |-> form.date, amount |-> form.amount,
                        category |-> form.category,
                        description |-> strip(form.description)])

(***************************************************************************)
(* Inputs                                                                  *)
(***************************************************************************)
D_15_12_2025 == <<<<1, 5>>, <<1, 2>>, <<2, 0, 2, 5>>>>

D_02_01_2026 == <<<<0, 2>>, <<0, 1>>, <<2, 0, 2, 6>>>>

\* "01-01-0999": a year below 1000, in four digits
D_01_01_0999 == <<<<0, 1>>, <<0, 1>>, <<0, 9, 9, 9>>>>

\* "2026-01-28": year first
D_2026_01_28 == <<<<2, 0, 2, 6>>, <<0, 1>>, <<2, 8>>>>

\* "31-02-2026": no such day
D_31_02_2026 == <<<<3, 1>>, <<0, 2>>, <<2, 0, 2, 6>>>>

Txn(d, a, c, s) == [date |-> d, amount |-> a, category |-> c, description |-> s]

\* "NA" is one of the texts read_csv reads as a missing value
ValidInputs ==
    { Txn(D_15_12_2025, 10, "Income", "Salary"),
      Txn(D_02_01_2026, 25, "Expense", ""),
      Txn(D_02_01_2026, 25, "Expense", "NA") }

InvalidInputs ==
    { Txn(D_2026_01_28, 10, "Income", "Salary"),
      Txn(D_31_02_2026, 10, "Income", "Salary"),
      Txn(D_15_12_2025, 0, "Income", "Salary"),
      Txn(D_15_12_2025, -5, "Income", "Salary"),
      Txn(D_15_12_2025, 10, "Savings", "Salary") }

\* the keyword arguments of update_transaction that are not None
NoFields == <<>>

UpdateInputs ==
    { NoFields,
      [amount |-> 25],
      [date |-> D_02_01_2026, category |-> "Expense", description |-> ""],
      [amount |-> -5],
      [amount |-> 0, description |-> ""],
      [date |-> D_2026_01_28],
      [category |-> "Savings", amount |-> 25] }

\* the objects of a JSON file to import
ImportItems ==
    { [id |-> 7, date |-> D_02_01_2026, amount |-> 25, category |-> "Expense",
       description |-> ""],
      [id |-> 1, date |-> D_15_12_2025, amount |-> -5, category |-> "Income",
       description |-> "Salary"],
      [id |-> 2, date |-> D_15_12_2025, amount |-> 10, category |-> "Income"] }

\* rows of a file in the legacy format (no id column)
LegacyRows == { Txn(D_15_12_2025, 10, "Income", "Salary") }

SeqsUpTo(S, n) == UNION {[1..k -> S] : k \in 0..n}

LegacyFiles ==
    {[exists |-> TRUE, header |-> LEGACY_COLUMNS, rows |-> rs] :
        rs \in SeqsUpTo(LegacyRows, MaxLegacy)}

\* rows of a legacy file with any content: one that passes validation, one
\* with a negative amount and an empty description, one whose description
\* is a text read_csv reads as a missing value
LegacyContent ==
    { Txn(D_15_12_2025, 10, "Income", "Salary"),
      Txn(D_02_01_2026, -5, "Expense", ""),
      Txn(D_02_01_2026, 25, "Expense", "NA") }

AnyLegacyFiles ==
    {[exists |-> TRUE, header |-> LEGACY_COLUMNS, rows |-> rs] :
        rs \in SeqsUpTo(LegacyContent, MaxLegacy)}

\* files that already have an id column: in the current format, and with
\* the columns category and description the other way round
SWAPPED_COLUMNS == <<"id", "date", "amount", "description", "category">>

IdFiles ==
    {[exists |-> TRUE, header |-> h, rows |-> rs] :
        h \in {CSV_COLUMNS, SWAPPED_COLUMNS},
        rs \in {<<>>, <<[id |-> 1, date |-> D_15_12_2025, amount |-> 10,
                        category |-> "Income", description |-> "Salary"]>>}}

\* the keyword arguments of get_transactions: date bounds on and between
\* the stored dates, categories, search terms in another case, with "." and
\* without occurrence, amount bounds, combinations, combinations no row
\* satisfies, and a start date that is not in DATE_FORMAT
Queries ==
    { <<>>,
      [start_date |-> D_15_12_2025],
      [start_date |-> D_02_01_2026],
      [end_date |-> D_15_12_2025],
      [start_date |-> D_15_12_2025, end_date |-> D_02_01_2026],
      [start_date |-> D_02_01_2026, end_date |-> D_15_12_2025],
      [category |-> "Expense"],
      [description_search |-> "rent"],
      [description_search |-> "SAL"],
      [description_search |-> "R.nt"],
      [description_search |-> "tax"],
      [min_amount |-> 25],
      [max_amount |-> 10],
      [min_amount |-> 10, max_amount |-> 25],
      [start_date |-> D_02_01_2026, category |-> "Expense", max_amount |-> 10],
      [category |-> "Income", min_amount |-> 25],
      [end_date |-> D_02_01_2026, description_search |-> "rent",
       min_amount |-> 10],
      [start_date |-> D_2026_01_28] }

\* the date ranges of get_summary and get_category_breakdown
Ranges ==
    { <<>>,
      [start_date |-> D_15_12_2025],
      [start_date |-> D_02_01_2026],
      [end_date |-> D_15_12_2025],
      [start_date |-> D_15_12_2025, end_date |-> D_02_01_2026],
      [start_date |-> D_02_01_2026, end_date |-> D_15_12_2025] }

\* legacy rows whose category is none of Category
OtherCategoryRows == { Txn(D_02_01_2026, 25, "Savings", "Rent") }

OtherCategoryFiles ==
    {[exists |-> TRUE, header |-> LEGACY_COLUMNS, rows |-> rs] :
        rs \in SeqsUpTo(OtherCategoryRows, MaxLegacy)}

\* The inputs of the specifications.  Fields: every field value, valid
\* and invalid, on a store created empty, with the history of the insertions
\* recorded.  Idents: few field values, stores that start empty or in the
\* legacy format, with the history of the ids recorded.
Fields ==
    [add |-> ValidInputs \cup InvalidInputs,
     update |-> UpdateInputs,
     items |-> ImportItems,
     ids |-> FALSE,
     order |-> TRUE]

Idents ==
    [add |-> { Txn(D_15_12_2025, 10, "Income", "Salary"),
               Txn(D_15_12_2025, 0, "Income", "Salary") },
     update |-> { [amount |-> 25], [amount |-> -5] },
     items |-> { [id |-> 7, date |-> D_15_12_2025, amount |-> 10,
                  category |-> "Income", description |-> "Salary"],
                 [id |-> 1, date |-> D_15_12_2025, amount |-> -5,
                  category |-> "Income", description |-> "Salary"] },
     ids |-> TRUE,
     order |-> FALSE]

\* Imports: JSON objects that are valid, that fail validation, that lack a
\* key, and whose date is null.
Imports ==
    [add |-> { Txn(D_15_12_2025, 10, "Income", "Salary") },
     update |-> {},
     items |-> ImportItems \cup
               { [id |-> 3, date |-> JsonNull, amount |-> 10,
                  category |-> "Income", description |-> "Salary"] },
     ids |-> FALSE,
     order |-> FALSE]

\* "2-1-2026": day and month in one digit
D_2_1_2026 == <<<<2>>, <<1>>, <<2, 0, 2, 6>>>>

\* datetime.today()
Today == D_02_01_2026

\* what the user types at the prompts of the CLI add flow: date, amount,
\* category, description, with the answers that are asked again
CliSessions ==
    { <<D_15_12_2025, 10, "I", "Rent">>,
      <<D_01_01_0999, 10, "I", "Rent">>,
      <<<<>>, 25, "e", "">>,
      <<D_2026_01_28, D_2_1_2026, -5, 25, "x", "E", "">> }

\* the fields of the add form of the GUI
GuiForms ==
    { Txn(D_15_12_2025, 10, "Income", " "),
      Txn(D_02_01_2026, 25, "Expense", "Rent"),
      Txn(D_15_12_2025, 0, "Income", "Salary") }

\* Kept: two valid adds, one with an empty description, for the operations
\* that write other files.
Kept ==
    [add |-> { Txn(D_15_12_2025, 10, "Income", "Salary"),
               Txn(D_02_01_2026, 25, "Expense", "") },
     update |-> {},
     items |-> {},
     ids |-> FALSE,
     order |-> FALSE]

\* Racing: two valid adds and one that fails validation, for the writers.
Racing ==
    [add |-> { Txn(D_15_12_2025, 10, "Income", "Salary"),
               Txn(D_02_01_2026, 25, "Expense", "Rent"),
               Txn(D_15_12_2025, 0, "Income", "Salary") },
     update |-> {},
     items |-> {},
     ids |-> FALSE,
     order |-> FALSE]

\* Stored: valid adds that differ in every field, for the queries.
Stored ==
    [add |-> { Txn(D_15_12_2025, 10, "Income", "Salary"),
               Txn(D_02_01_2026, 25, "Expense", ""),
               Txn(D_02_01_2026, 10, "Expense", "Rent") },
     update |-> {},
     items |-> {},
     ids |-> FALSE,
     order |-> FALSE]

\* Legacy: one valid add and one valid update, on stores that start in any
\* of the states initialize_csv distinguishes.
Legacy ==
    [add |-> { Txn(D_02_01_2026, 25, "Expense", "Rent") },
     update |-> { [amount |-> 25] },
     items |-> {},
     ids |-> FALSE,
     order |-> FALSE]

(***************************************************************************)
(* State                                                                   *)
(***************************************************************************)
VARIABLES
    file,       \* the backing file self.csv_file
    backup,     \* the file <csv_file>.backup
    mgr,        \* TRUE once a DataManager has been constructed
    last,       \* the last call: its arguments, its outcome, the file before
    removed,    \* history: the ids delete_transaction has removed so far
    issued,     \* history: the id the latest successful add returned, or 0
    inserted,   \* history: whether the store was created empty and only
                \* adds have changed it, and if so the Transactions added
    mig,        \* _migrate_csv: the statement to run next (0: not running),
                \* its DataFrame df, and the file as it was when it started
    out,        \* the files at the paths backup_data and export_to_json
                \* write to
    writers     \* per writer, where its add_transaction call stands: the
                \* Transaction it has built and the file it read the ids of

vars ==
    <<file, backup, mgr, last, removed, issued, inserted, mig, out, writers>>

Call(op, id, args, status, ok, txn, count) ==
    [op |-> op, id |-> id, args |-> args, status |-> status, ok |-> ok,
     txn |-> txn, count |-> count, before |-> file, issued |-> issued,
     rows |-> <<>>, result |-> <<>>]

\* a call that returns a DataFrame: its rows
CallRows(op, args, status, rows) ==
    [Call(op, 0, args, status, FALSE, NoTxn, 0) EXCEPT !.rows = rows]

\* a call that returns a dict or a path: the value returned
CallResult(op, args, status, result) ==
    [Call(op, 0, args, status, FALSE, NoTxn, 0) EXCEPT !.result = result]

NoMigration == [pc |-> 0, orig |-> Missing, df |-> read_csv(Missing)]

NotAddsOnly == [pure |-> FALSE, log |-> <<>>]

\* the processes that hold a DataManager on the same file
Writers == {1, 2}

NotCalling == [pc |-> "idle", txn |-> NoTxn, before |-> Missing]

\* a run that starts on one of the files, before or after a DataManager
\* was constructed on it
Opened(files) ==
    /\ file \in files
    /\ backup = Missing
    /\ last = [op |-> "none", id |-> 0, args |-> <<>>, status |-> "ok",
               ok |-> FALSE, txn |-> NoTxn, count |-> 0, before |-> Missing,
               issued |-> 0, rows |-> <<>>, result |-> <<>>]
    /\ mig = NoMigration
    /\ out = [p \in OutPaths |-> Missing]
    /\ writers = [w \in Writers |-> NotCalling]
    /\ removed = {}
    /\ issued = 0
    /\ inserted = NotAddsOnly

Start(files) ==
    /\ Opened(files)
    /\ mgr = FALSE

\* DataManager(csv_file): __init__ runs initialize_csv, and there is no
\* new instance when it raises
Construct(P) ==
    LET r == initialize_csv(file, backup)
    IN  /\ file' = r.file
        /\ backup' = r.backup
        /\ mgr' = (mgr \/ constructed(r.status))
        /\ last' = Call("init", 0, <<>>, r.status, FALSE, NoTxn, 0)
        /\ inserted' = IF P.order /\ read_csv(file).err # "none"
                       THEN [pure |-> TRUE, log |-> <<>>] ELSE inserted
        /\ UNCHANGED <<removed, issued, mig, out,
                 writers>>

Add(P) ==
    /\ mgr
    /\ Len(file.rows) < MaxRows
    /\ get_next_id_raises(file) # "none" \/ get_next_id(file) <= MaxId
    /\ \E a \in P.add :
          LET r == add_transaction(file, a)
          IN  /\ file' = r.file
              /\ last' = Call("add", 0, a, r.status, FALSE, r.txn, 0)
              /\ issued' = IF P.ids /\ r.status = "ok" THEN r.txn.id
                           ELSE issued
              /\ inserted' = IF r.status = "ok" /\ inserted.pure
                             THEN [inserted EXCEPT !.log = Append(@, r.txn)]
                             ELSE inserted
    /\ UNCHANGED <<backup, mgr, removed, mig, out,
                 writers>>

GetById ==
    /\ mgr
    /\ \E id \in 1..MaxId :
          LET r == get_transaction_by_id(file, id)
          IN  last' = Call("get", id, <<>>, r.status, r.found, r.txn, 0)
    /\ UNCHANGED <<file, backup, mgr, removed, issued, inserted, mig, out,
                 writers>>

Update(P) ==
    /\ mgr
    /\ \E id \in 1..MaxId, kw \in P.update :
          LET r == update_transaction(file, id, kw)
          IN  /\ file' = r.file
              /\ last' = Call("update", id, kw, r.status, r.ok, NoTxn, 0)
              /\ inserted' = IF r.ok THEN NotAddsOnly ELSE inserted
    /\ UNCHANGED <<backup, mgr, removed, issued, mig, out,
                 writers>>

Delete(P) ==
    /\ mgr
    /\ \E id \in 1..MaxId :
          LET r == delete_transaction(file, id)
          IN  /\ file' = r.file
              /\ last' = Call("delete", id, <<>>, r.status, r.ok, NoTxn, 0)
              /\ removed' = IF P.ids /\ r.ok THEN removed \cup {id}
                            ELSE removed
              /\ inserted' = IF r.ok THEN NotAddsOnly ELSE inserted
    /\ UNCHANGED <<backup, mgr, issued, mig, out,
                 writers>>

Import(P) ==
    /\ mgr
    /\ \E data \in SeqsUpTo(P.items, MaxImport) :
          /\ Len(file.rows) + Len(data) <= MaxRows
          /\ \/ get_next_id_raises(file) # "none"
             \/ get_next_id(file) + Len(data) - 1 <= MaxId
          /\ LET r == import_from_json(file, data)
             IN  /\ file' = r.file
                 /\ last' = Call("import", 0, data, r.status, FALSE, NoTxn, r.count)
                 /\ issued' = IF P.ids /\ r.count > 0
                              THEN r.file.rows[Len(r.file.rows)].id
                              ELSE issued
                 /\ inserted' = IF ~inserted.pure THEN inserted
                                ELSE [inserted EXCEPT !.log = @ \o
                                         [i \in 1..r.count |->
                                             r.file.rows[Len(file.rows) + i]]]
    /\ UNCHANGED <<backup, mgr, removed, mig, out,
                 writers>>

Init == Start({Missing, ZeroBytes})

Next ==
    \/ Construct(Fields)
    \/ Add(Fields)
    \/ GetById
    \/ Update(Fields)
    \/ Delete(Fields)
    \/ Import(Fields)

Spec == Init /\ [][Next]_vars

InitIds == Start({Missing, ZeroBytes} \cup LegacyFiles)

NextIds ==
    \/ Construct(Idents)
    \/ Add(Idents)
    \/ Update(Idents)
    \/ Delete(Idents)
    \/ Import(Idents)

SpecIds == InitIds /\ [][NextIds]_vars

(***************************************************************************)
(* The constructor with the migration run statement by statement           *)
(***************************************************************************)
\* initialize_csv on a file that needs no migration
Initialize(P) ==
    /\ mig.pc = 0
    /\ ~NeedsMigration(file)
    /\ Construct(P)

\* initialize_csv calls self._migrate_csv()
MigrateBegin ==
    /\ mig.pc = 0
    /\ NeedsMigration(file)
    /\ mig' = [pc |-> 1, orig |-> file, df |-> NoMigration.df]
    /\ UNCHANGED <<file, backup, mgr, last, removed, issued, inserted, out,
                 writers>>

\* the next statement of _migrate_csv runs to its end; after the last one
\* __init__ returns
MigrateStep ==
    /\ mig.pc \in 1..Len(migrate_steps)
    /\ LET st == migrate_steps[mig.pc]
           done == mig.pc = Len(migrate_steps)
       IN  /\ mig' = [pc |-> IF done THEN 0 ELSE mig.pc + 1,
                      orig |-> mig.orig,
                      df |-> CASE st = "read" -> read_csv(file)
                               [] st = "insert" -> insert_id(mig.df)
                               [] OTHER -> mig.df]
           /\ backup' = IF st = "copy" THEN file ELSE backup
           /\ file' = IF st = "write" THEN to_csv(mig.df.columns, mig.df.rows)
                      ELSE file
           /\ mgr' = (mgr \/ (done /\ constructed("ok")))
           /\ last' = IF done THEN Call("init", 0, <<>>, "ok", FALSE, NoTxn, 0)
                      ELSE last
    /\ UNCHANGED <<removed, issued, inserted, out,
                 writers>>

\* the next statement of _migrate_csv raises: read_csv, shutil.copy and
\* to_csv do I/O; a copy or a write that fails may have written a part
MigrateFail ==
    /\ mig.pc \in 1..Len(migrate_steps)
    /\ LET st == migrate_steps[mig.pc]
       IN  /\ st \in {"read", "copy", "write"}
           /\ backup' \in IF st = "copy" THEN {backup} \cup Truncations(file)
                          ELSE {backup}
           /\ file' \in IF st = "write"
                        THEN {file} \cup Truncations(to_csv(mig.df.columns,
                                                            mig.df.rows))
                        ELSE {file}
    /\ mig' = [mig EXCEPT !.pc = 0]
    /\ mgr' = (mgr \/ constructed("RuntimeError"))
    /\ last' = Call("init", 0, <<>>, "RuntimeError", FALSE, NoTxn, 0)
    /\ UNCHANGED <<removed, issued, inserted, out,
                 writers>>

InitMig == Start({Missing, ZeroBytes} \cup AnyLegacyFiles \cup IdFiles)

NextMig ==
    \/ Initialize(Legacy)
    \/ MigrateBegin
    \/ MigrateStep
    \/ MigrateFail
    \/ Add(Legacy)
    \/ GetById
    \/ Update(Legacy)
    \/ Delete(Legacy)

SpecMig == InitMig /\ [][NextMig]_vars

(***************************************************************************)
(* Queries                                                                 *)
(***************************************************************************)
Query ==
    /\ mgr
    /\ \E q \in Queries :
          LET r == get_transactions(file, q)
          IN  last' = CallRows("query", q, r.status, r.rows)
    /\ UNCHANGED <<file, backup, mgr, removed, issued, inserted, mig, out,
                 writers>>

NextQuery ==
    \/ Construct(Stored)
    \/ Add(Stored)
    \/ Delete(Stored)
    \/ Query

SpecQuery == Init /\ [][NextQuery]_vars

(***************************************************************************)
(* Import from JSON, export to Excel                                       *)
(***************************************************************************)
\* DataManager.export_to_excel(output_path)
ExportExcel ==
    /\ mgr
    /\ \E path \in ExcelPaths :
          LET r == export_to_excel(file)
          IN  /\ file' = r.file
              /\ out' = IF r.status = "ok"
                        THEN [out EXCEPT ![path] = r.written] ELSE out
              /\ last' = CallResult("export_excel", path, r.status, <<>>)
    /\ UNCHANGED <<backup, mgr, removed, issued, inserted, mig, writers>>

NextImport ==
    \/ Construct(Imports)
    \/ Add(Imports)
    \/ Delete(Imports)
    \/ Import(Imports)
    \/ ExportExcel

SpecImport == Init /\ [][NextImport]_vars

(***************************************************************************)
(* Front ends                                                              *)
(***************************************************************************)
CliAdd ==
    /\ mgr
    /\ Len(file.rows) < MaxRows
    /\ get_next_id_raises(file) # "none" \/ get_next_id(file) <= MaxId
    /\ \E lines \in CliSessions :
          LET r == cli_add_transaction(file, lines, Today)
          IN  /\ file' = r.file
              /\ last' = Call("cli_add", 0, lines, r.status, FALSE, r.txn, 0)
    /\ UNCHANGED <<backup, mgr, removed, issued, inserted, mig, out,
                 writers>>

GuiAdd ==
    /\ mgr
    /\ Len(file.rows) < MaxRows
    /\ get_next_id_raises(file) # "none" \/ get_next_id(file) <= MaxId
    /\ \E form \in GuiForms :
          LET r == gui_add_transaction(file, form)
          IN  /\ file' = r.file
              /\ last' = Call("gui_add", 0, form, r.status, FALSE, r.txn, 0)
    /\ UNCHANGED <<backup, mgr, removed, issued, inserted, mig, out,
                 writers>>

NextFront ==
    \/ Construct(Kept)
    \/ CliAdd
    \/ GuiAdd
    \/ Delete(Kept)

SpecFront == Init /\ [][NextFront]_vars

(***************************************************************************)
(* Backup and export                                                       *)
(***************************************************************************)
Backup ==
    /\ mgr
    /\ \E path \in GivenPaths \cup {NoPath}, now \in Stamps :
          LET r == backup_data(file, path, now)
          IN  /\ file' = r.file
              /\ out' = IF r.status = "ok"
                        THEN [out EXCEPT ![r.path] = r.copy] ELSE out
              /\ last' = CallResult("backup", path, r.status, r.path)
    /\ UNCHANGED <<backup, mgr, removed, issued, inserted, mig, writers>>

\* export_to_json(path), for the paths of Paths
Export(Paths) ==
    /\ mgr
    /\ \E path \in Paths :
          LET r == export_to_json(file, path)
          IN  /\ file' = r.file
              /\ out' = IF r.status = "ok" /\ path \in OutPaths
                        THEN [out EXCEPT ![path] = r.written] ELSE out
              /\ last' = CallResult("export", path, r.status, <<>>)
    /\ UNCHANGED <<backup, mgr, removed, issued, inserted, mig, writers>>

GetAll ==
    /\ mgr
    /\ LET r == get_all_transactions(file)
       IN  last' = CallRows("get_all", <<>>, r.status, r.txns)
    /\ UNCHANGED <<file, backup, mgr, removed, issued, inserted, mig, out,
                 writers>>

NextFiles ==
    \/ Construct(Kept)
    \/ Add(Kept)
    \/ Backup
    \/ Export(JsonPaths)
    \/ GetById
    \/ GetAll

SpecFiles == Init /\ [][NextFiles]_vars

(***************************************************************************)
(* Aggregations                                                            *)
(***************************************************************************)
Summary ==
    /\ mgr
    /\ \E q \in Ranges :
          LET r == get_summary(file, q)
          IN  last' = CallResult("summary", q, r.status, r.summary)
    /\ UNCHANGED <<file, backup, mgr, removed, issued, inserted, mig, out,
                 writers>>

Breakdown ==
    /\ mgr
    /\ \E q \in Ranges :
          LET r == get_category_breakdown(file, q)
          IN  last' = CallResult("breakdown", q, r.status, r.breakdown)
    /\ UNCHANGED <<file, backup, mgr, removed, issued, inserted, mig, out,
                 writers>>

InitAgg == Start({Missing, ZeroBytes} \cup OtherCategoryFiles)

NextAgg ==
    \/ Construct(Stored)
    \/ Add(Stored)
    \/ Delete(Stored)
    \/ Summary
    \/ Breakdown

SpecAgg == InitAgg /\ [][NextAgg]_vars

(***************************************************************************)
(* Two writers on one file: add_transaction takes no lock, so another      *)
(* writer can run between its read of the ids and its append               *)
(***************************************************************************)
Reading == {w \in Writers : writers[w].pc = "read"}

\* writer w calls add_transaction: _get_next_id and Transaction(...)
AddRead(P, w) ==
    /\ mgr
    /\ writers[w].pc # "read"
    /\ Len(file.rows) + Cardinality(Reading) < MaxRows
    /\ get_next_id_raises(file) # "none" \/ get_next_id(file) <= MaxId
    /\ \E a \in P.add :
          LET r == add_transaction_read(file, a)
          IN  IF r.status = "ok"
              THEN /\ writers' = [writers EXCEPT ![w] =
                          [pc |-> "read", txn |-> r.txn, before |-> file]]
                   /\ UNCHANGED last
              ELSE /\ last' = Call("add", 0, a, r.status, FALSE, NoTxn, 0)
                   /\ UNCHANGED writers
    /\ UNCHANGED <<file, backup, mgr, removed, issued, inserted, mig, out>>

\* writer w opens the file in append mode, writes its row and returns
AddAppend(w) ==
    /\ writers[w].pc = "read"
    /\ file' = add_transaction_append(file, writers[w].txn)
    /\ writers' = [writers EXCEPT ![w].pc = "written"]
    /\ last' = Call("add", 0, <<>>, "ok", FALSE, writers[w].txn, 0)
    /\ UNCHANGED <<backup, mgr, removed, issued, inserted, mig, out>>

\* every writer has constructed its DataManager on the file the first of
\* them created
InitConc ==
    /\ Opened({initialize_csv(Missing, Missing).file})
    /\ mgr = TRUE

NextConc ==
    \/ \E w \in Writers : AddRead(Racing, w)
    \/ \E w \in Writers : AddAppend(w)

SpecConc == InitConc /\ [][NextConc]_vars

(***************************************************************************)
(* The operations that only read the store                                 *)
(***************************************************************************)
\* export_to_json is given the path of a file of its own or that of the
\* backing file
RECURSIVE Built(_)
\* the stores the constructor creates and at most n valid adds fill
Built(n) ==
    IF n = 0 THEN {initialize_csv(Missing, Missing).file}
    ELSE LET shorter == Built(n - 1)
         IN  shorter \cup {add_transaction(f, a).file :
                               f \in shorter, a \in Kept.add}

InitRead ==
    /\ Opened(Built(MaxRows))
    /\ mgr = TRUE

NextRead ==
    \/ GetById
    \/ GetAll
    \/ Query
    \/ Summary
    \/ Breakdown
    \/ Export(JsonPaths \cup {CsvPath})

SpecRead == InitRead /\ [][NextRead]_vars

(***************************************************************************)
(* Properties                                                              *)
(***************************************************************************)
AddReturned == last.op = "add" /\ last.status = "ok"

\* C1: in single-process use, whatever adds, updates, deletes and imports
\* have run on a store created empty or migrated, the ids of the rows of the
\* backing file are pairwise distinct.
C1_IdsDistinct ==
    mgr => \A i, j \in 1..Len(file.rows) :
              i # j => file.rows[i].id # file.rows[j].id

C1_Witness ==
    /\ AddReturned
    /\ removed # {}
    /\ backup.exists
    /\ Len(file.rows) = 3

\* C2 (as claimed): an id that delete_transaction removed is never returned
\* by a later add_transaction, and the ids add_transaction returns are
\* strictly increasing over the lifetime of the store.
C2_NoReuse ==
    AddReturned => /\ last.txn.id \notin removed
                   /\ last.txn.id > last.issued

\* C3: a successful add_transaction returns id 1 on a store without rows and
\* otherwise the largest id in the store plus one; the first add after the
\* migration of n legacy rows returns n + 1.
C3_NextIdIsMaxPlusOne ==
    AddReturned =>
        LET B == Ids(last.before.rows)
            id == last.txn.id
        IN  /\ B = {} => id = 1
            /\ B # {} => (id - 1 \in B /\ \A x \in B : x < id)
            /\ (backup.exists /\ last.before = migrate_csv(backup).file)
                  => id = Len(backup.rows) + 1

C3_Witness ==
    /\ AddReturned
    /\ backup.exists
    /\ Len(backup.rows) = 2
    /\ last.before = migrate_csv(backup).file
    /\ last.txn.id = 3

\* C4 (as claimed): get_transaction_by_id(t.id) right after
\* t = add_transaction(date, amount, category, description) returns a
\* Transaction equal to t in all five fields, for every valid input, an
\* empty description included.
C4_RoundTrip ==
    AddReturned =>
        get_transaction_by_id(file, last.txn.id)
            = [status |-> "ok", found |-> TRUE, txn |-> last.txn]

\* the inputs C5 says are rejected
Rejected(a) ==
    \/ strptime(a.date).err # "none"
    \/ a.amount <= 0
    \/ a.category \notin {"Income", "Expense"}

\* C5: add_transaction raises a validation error for an input whose date
\* does not parse, whose amount is zero or negative or whose category is
\* neither Income nor Expense; the store is then exactly as it was, and so
\* is the id the next successful add receives.
C5_InvalidAddRejected ==
    (last.op = "add" /\ Rejected(last.args)) =>
        /\ last.status \in {"InvalidDate", "InvalidAmount", "InvalidCategory"}
        /\ file = last.before
        /\ \A a \in ValidInputs :
              add_transaction(file, a).txn.id
                 = add_transaction(last.before, a).txn.id

C5_Witness ==
    /\ last.op = "add"
    /\ last.args.amount = 0
    /\ last.status = "InvalidAmount"
    /\ Len(file.rows) = 2

\* the row of the store with the given id, as written in the file
RowOf(f, id) == f.rows[CHOOSE i \in 1..Len(f.rows) : f.rows[i].id = id]

\* the value a field has after an update that supplies the fields of kw
Expected(row, kw, k) == IF k \in DOMAIN kw THEN kw[k] ELSE row[k]

UpdateFails(row, kw) ==
    \/ strptime(Expected(row, kw, "date")).err # "none"
    \/ Expected(row, kw, "amount") <= 0
    \/ Expected(row, kw, "category") \notin {"Income", "Expense"}

\* C6: update_transaction on an existing id with values that make the row
\* fail validation returns False and leaves the backing file unchanged:
\* get_transaction_by_id returns what it returned before.
C6_UpdateAtomic ==
    (/\ last.op = "update"
     /\ last.id \in Ids(last.before.rows)
     /\ UpdateFails(RowOf(last.before, last.id), last.args)) =>
        /\ last.status = "ok"
        /\ ~last.ok
        /\ file = last.before
        /\ \A id \in 1..MaxId :
              get_transaction_by_id(file, id)
                 = get_transaction_by_id(last.before, id)

C6_Witness ==
    /\ last.op = "update"
    /\ last.args = [amount |-> -5]
    /\ Len(last.before.rows) = 2
    /\ last.id = last.before.rows[2].id
    /\ ~last.ok

\* C7: a successful update_transaction returns True and replaces exactly
\* the supplied fields of the row with that id: the row keeps its id and its
\* position, the fields passed as None keep their values, the other rows
\* and the number of rows are unchanged.
C7_UpdateReplacesSupplied ==
    (last.op = "update" /\ last.ok) =>
        /\ last.id \in Ids(last.before.rows)
        /\ Len(file.rows) = Len(last.before.rows)
        /\ \A i \in 1..Len(file.rows) :
              LET old == last.before.rows[i]
              IN  IF old.id = last.id
                  THEN /\ file.rows[i].id = old.id
                       /\ \A k \in {"date", "amount", "category", "description"} :
                             file.rows[i][k] = Expected(old, last.args, k)
                  ELSE file.rows[i] = old

\* C8: a successful delete_transaction returns True and removes the row
\* with that id and nothing else: the rows that remain keep their content
\* and their order, and get_transaction_by_id(id) then returns None.
C8_DeleteRemovesOne ==
    (last.op = "delete" /\ last.ok) =>
        /\ \E p \in 1..Len(last.before.rows) :
              /\ last.before.rows[p].id = last.id
              /\ Len(file.rows) = Len(last.before.rows) - 1
              /\ \A i \in 1..Len(file.rows) :
                    file.rows[i] = IF i < p THEN last.before.rows[i]
                                   ELSE last.before.rows[i + 1]
        /\ get_transaction_by_id(file, last.id)
              = [status |-> "ok", found |-> FALSE, txn |-> NoTxn]

\* C9: update_transaction and delete_transaction called with an id that is
\* not in the store, an empty store included, return False without raising
\* and leave the backing file unchanged.
C9_AbsentIdReturnsFalse ==
    (last.op \in {"update", "delete"} /\ last.id \notin Ids(last.before.rows)) =>
        /\ last.status = "ok"
        /\ ~last.ok
        /\ file = last.before

C9_Witness ==
    /\ last.op = "delete"
    /\ last.before.rows = <<>>
    /\ ~last.ok
    /\ file.rows = <<>>

\* C10: a successful add_transaction appends exactly one row after the
\* existing rows, which keep their content and position; while only adds
\* have changed the store, get_all_transactions returns the rows in the
\* order of insertion.
C10_AddAppends ==
    /\ AddReturned =>
          /\ Len(file.rows) = Len(last.before.rows) + 1
          /\ \A i \in 1..Len(last.before.rows) :
                file.rows[i] = last.before.rows[i]
          /\ file.rows[Len(file.rows)] = to_dict(last.txn)
    /\ inserted.pure =>
          LET all == get_all_transactions(file)
          IN  /\ all.status = "ok"
              /\ Len(all.txns) = Len(inserted.log)
              /\ \A i \in 1..Len(inserted.log) :
                    /\ all.txns[i].id = inserted.log[i].id
                    /\ all.txns[i].date = inserted.log[i].date
                    /\ all.txns[i].amount = inserted.log[i].amount
                    /\ all.txns[i].category = inserted.log[i].category

C10_Witness ==
    /\ AddReturned
    /\ inserted.pure
    /\ Len(inserted.log) = 3
    /\ inserted.log[1].description # inserted.log[3].description

Valid(r) == from_dict(r).err = "ok"

\* C11: after every successful mutating operation, the migration of a legacy
\* file by the constructor included, every row of the backing file passes
\* the validation of Transaction.
C11_StoredRowsValid ==
    (mgr /\ mig.pc = 0 /\ file.header = CSV_COLUMNS)
        => \A i \in 1..Len(file.rows) : Valid(ReadRow(file.rows[i]))

\* C12: get_transaction_by_id raises for no id and no store that the
\* constructor has initialized, a migrated legacy store included: it returns
\* a Transaction or None.
C12_GetNeverRaises ==
    (last.op = "get" /\ file.header = CSV_COLUMNS) => last.status = "ok"

\* C13: once the constructor has returned without error, whatever the file
\* was before (missing, empty, legacy, or with an id column already), the
\* header of the backing file is id,date,amount,category,description, and
\* it stays so after every add, update and delete.
C13_HeaderFixed ==
    (mgr /\ mig.pc = 0) => file.header = CSV_COLUMNS

\* the constructor has just returned from the migration of a legacy file
Migrated == last.op = "init" /\ last.status = "ok" /\ NeedsMigration(last.before)

\* C14: the migration of a legacy file with n rows leaves the same n rows in
\* the same order, with the ids 1..n prepended and date, amount, category
\* and description as they were, and <file>.backup equal to the file as it
\* was before.
C14_MigrationKeepsRows ==
    Migrated =>
        LET old == last.before
        IN  /\ file.header = <<"id">> \o old.header
            /\ Len(file.rows) = Len(old.rows)
            /\ \A i \in 1..Len(old.rows) :
                  /\ file.rows[i].id = i
                  /\ file.rows[i].date = old.rows[i].date
                  /\ file.rows[i].amount = old.rows[i].amount
                  /\ file.rows[i].category = old.rows[i].category
                  /\ file.rows[i].description = old.rows[i].description
            /\ backup = old

MigrationFailed == last.op = "init" /\ last.status = "RuntimeError"

\* C15: _migrate_csv completes the copy to <file>.backup before it
\* overwrites the file, so between any two of its statements, and after a
\* statement that failed, the content the file had before the migration is
\* intact in the file or in the backup.
C15_OriginalKept ==
    (mig.pc > 0 \/ MigrationFailed) => (file = mig.orig \/ backup = mig.orig)

C15_Witness ==
    /\ MigrationFailed
    /\ Len(mig.orig.rows) = 2
    /\ file # mig.orig
    /\ file.exists
    /\ backup = mig.orig

\* C16: a statement of _migrate_csv that fails is raised out of the
\* constructor as a RuntimeError: no DataManager exists for the store, and
\* add, update and delete run only on a store whose initialization has
\* succeeded.
C16_FailureLeavesNoManager ==
    /\ MigrationFailed => ~mgr
    /\ mig.pc > 0 => ~mgr
    /\ last.op \in {"add", "update", "delete"} => mgr

C16_Witness ==
    /\ MigrationFailed
    /\ ~mgr
    /\ file = mig.orig
    /\ backup.exists
    /\ backup # mig.orig

Queried == last.op = "query"

\* a case-insensitive occurrence of the characters of term in text
IsSubstring(term, text) ==
    \E k \in 0..(Len(text) - Len(term)) :
        \A j \in 1..Len(term) : Lower(term[j]) = Lower(text[k + j])

\* the stored rows, as read, that satisfy the predicates of the query q:
\* bounds inclusive, dates in calendar order, the description holding the
\* search term as a case-insensitive literal text
Ordinal(text) ==
    LET dt == strptime(text) IN (dt.y * 12 + dt.m) * 31 + dt.d

InBounds(r, q) ==
    /\ Given(q, "start_date") => Ordinal(q.start_date) <= Ordinal(r.date)
    /\ Given(q, "end_date") => Ordinal(r.date) <= Ordinal(q.end_date)

Satisfies(r, q) ==
    /\ InBounds(r, q)
    /\ Given(q, "category") => r.category = q.category
    /\ Given(q, "description_search") =>
           /\ r.description # NaN
           /\ IsSubstring(Chars(q.description_search), Chars(r.description))
    /\ "min_amount" \in DOMAIN q => q.min_amount <= r.amount
    /\ "max_amount" \in DOMAIN q => r.amount <= q.max_amount

WellFormed(q) ==
    /\ "start_date" \in DOMAIN q => strptime(q.start_date).err = "none"
    /\ "end_date" \in DOMAIN q => strptime(q.end_date).err = "none"

\* the rows of the result are the rows rs of the store, in that order, with
\* the date converted
SameRows(result, rs) ==
    /\ Len(result) = Len(rs)
    /\ \A i \in 1..Len(rs) : result[i] = [rs[i] EXCEPT !.date = strptime(@)]

\* C17: get_transactions returns the stored rows that satisfy every
\* predicate supplied (start_date <= date, date <= end_date, category
\* equal, description contains the term, min_amount <= amount, amount <=
\* max_amount), an omitted predicate being true, in the order of the store.
C17_ExactlyTheMatches ==
    (Queried /\ WellFormed(last.args)) =>
        /\ last.status = "ok"
        /\ SameRows(last.rows,
                    SelectSeq(read_csv(file).rows,
                              LAMBDA r : Satisfies(r, last.args)))

\* C18: the date bounds are inclusive and compare as calendar dates, not as
\* texts: a query by date bounds returns the rows dated from start_date to
\* end_date, both included (02-01-2026 is after 15-12-2025).
C18_DateBounds ==
    (Queried /\ WellFormed(last.args)
             /\ DOMAIN last.args \subseteq {"start_date", "end_date"}) =>
        /\ last.status = "ok"
        /\ SameRows(last.rows,
                    SelectSeq(read_csv(file).rows,
                              LAMBDA r : InBounds(r, last.args)))

C18_Witness ==
    /\ Queried
    /\ last.args = [start_date |-> D_15_12_2025, end_date |-> D_02_01_2026]
    /\ \E i, j \in 1..Len(file.rows) :
          /\ file.rows[i].date = D_15_12_2025
          /\ file.rows[j].date = D_02_01_2026
    /\ Len(last.rows) = Len(file.rows)

\* C19: description_search is a case-insensitive literal substring test,
\* whatever characters the term holds: a query by a non-empty term returns
\* the rows whose description holds the term, and no row whose description
\* is absent or empty.
C19_LiteralSubstring ==
    (Queried /\ DOMAIN last.args = {"description_search"}
             /\ last.status = "ok") =>
        SameRows(last.rows,
                 SelectSeq(read_csv(file).rows,
                           LAMBDA r : Satisfies(r, last.args)))

\* C20: get_transactions does not fail on account of the data: on a missing
\* or empty backing file, on an empty store, and for well-formed filters
\* that no row satisfies, it returns an empty result and does not raise.
C20_NoFailureOnData ==
    /\ \A q \in Queries, f \in {Missing, ZeroBytes} :
          get_transactions(f, q) = [status |-> "ok", rows |-> <<>>]
    /\ (Queried /\ WellFormed(last.args)) => last.status = "ok"

\* the rows of the store, as read, dated within the range q
Selected(f, q) == SelectSeq(read_csv(f).rows, LAMBDA r : InBounds(r, q))

RECURSIVE Total(_, _)
Total(rows, c) ==
    IF rows = <<>> THEN 0
    ELSE (IF Head(rows).category = c THEN Head(rows).amount ELSE 0)
         + Total(Tail(rows), c)

\* C21: get_summary over a date range returns the sum of the amounts of the
\* selected Income rows, the sum of the selected Expense rows, their
\* difference as net_savings and the number of selected rows; all four are
\* zero when no row is selected.
C21_Summary ==
    last.op = "summary" =>
        LET rows == Selected(file, last.args)
        IN  /\ last.status = "ok"
            /\ last.result.total_income = Total(rows, "Income")
            /\ last.result.total_expense = Total(rows, "Expense")
            /\ last.result.net_savings
                  = Total(rows, "Income") - Total(rows, "Expense")
            /\ last.result.transaction_count = Len(rows)

C21_Witness ==
    /\ last.op = "summary"
    /\ last.args = [start_date |-> D_02_01_2026]
    /\ last.result.total_income = 0
    /\ last.result.total_expense = 35
    /\ last.result.net_savings = -35
    /\ last.result.transaction_count = 2
    /\ Len(file.rows) = 3

\* the sum of the values of a mapping
RECURSIVE SumValues(_)
SumValues(m) ==
    IF DOMAIN m = {} THEN 0
    ELSE LET k == CHOOSE x \in DOMAIN m : TRUE
         IN  m[k] + SumValues([x \in DOMAIN m \ {k} |-> m[x]])

\* C22: in every reachable store and for every date range, the values of
\* get_category_breakdown add up to total_income + total_expense of
\* get_summary, and net_savings is total_income - total_expense.
C22_AggregationIdentity ==
    last.op = "breakdown" =>
        LET s == get_summary(file, last.args).summary
        IN  /\ SumValues(last.result) = s.total_income + s.total_expense
            /\ s.net_savings = s.total_income - s.total_expense

\* C23: get_category_breakdown maps every category that has a selected row
\* to the sum of the amounts of its selected rows and has no key for any
\* other category; for an empty selection it is the empty mapping.
C23_Breakdown ==
    last.op = "breakdown" =>
        LET rows == Selected(file, last.args)
        IN  /\ last.status = "ok"
            /\ DOMAIN last.result = {rows[i].category : i \in 1..Len(rows)}
            /\ \A c \in DOMAIN last.result : last.result[c] = Total(rows, c)

C23_Witness ==
    /\ last.op = "breakdown"
    /\ last.args = [end_date |-> D_15_12_2025]
    /\ DOMAIN last.result = {"Income"}
    /\ last.result["Income"] = 20
    /\ \E i \in 1..Len(file.rows) : file.rows[i].category = "Expense"

\* the objects of an import that have every key and pass validation
Importable(data) ==
    SelectSeq(data, LAMBDA item :
        ItemKeys \subseteq DOMAIN item /\ ~Rejected(item))

\* C24: import_from_json adds the objects in input order, gives each a fresh
\* id whatever id the object carries, skips an object that fails validation
\* and goes on with the objects after it, and returns the number of rows
\* the store gained.
C24_ImportSkipsInvalid ==
    last.op = "import" =>
        LET old == last.before.rows
            new == Importable(last.args)
        IN  /\ last.status = "ok"
            /\ last.count = Len(file.rows) - Len(old)
            /\ Len(file.rows) = Len(old) + Len(new)
            /\ \A i \in 1..Len(old) : file.rows[i] = old[i]
            /\ \A i \in 1..Len(new) :
                  LET r == file.rows[Len(old) + i]
                  IN  /\ r.id = get_next_id(last.before) + i - 1
                      /\ r.date = new[i].date
                      /\ r.amount = new[i].amount
                      /\ r.category = new[i].category
                      /\ r.description = new[i].description

\* C25: backup_data copies the backing file unchanged to the path given, or
\* to <file>.backup_<timestamp> when none is given, returns the path it
\* wrote, and leaves the backing file as it was.
C25_BackupCopies ==
    last.op = "backup" =>
        /\ last.status = "ok"
        /\ last.result \in OutPaths
        /\ last.args # NoPath => last.result = last.args
        /\ last.args = NoPath =>
               \E t \in Stamps : last.result = CsvPath \o <<".backup_", t>>
        /\ out[last.result] = file
        /\ file = last.before

C25_Witness ==
    /\ last.op = "backup"
    /\ last.args = NoPath
    /\ Len(file.rows) = 2
    /\ out[last.result] = file
    /\ out[<<"copy.csv">>].exists
    /\ out[<<"copy.csv">>] # file

\* C26: export_to_json writes one object per stored transaction, with the
\* fields id, date, amount, category and description holding the stored
\* values, in the order of the rows of the backing file; an empty store
\* gives an empty array.
C26_ExportHoldsStoredValues ==
    last.op = "export" =>
        /\ last.status = "ok"
        /\ out[last.args].exists
        /\ Len(out[last.args].json) = Len(file.rows)
        /\ \A i \in 1..Len(file.rows) :
              LET o == out[last.args].json[i]
              IN  /\ DOMAIN o = {"id", "date", "amount", "category",
                                 "description"}
                  /\ o.id = file.rows[i].id
                  /\ o.date = file.rows[i].date
                  /\ o.amount = file.rows[i].amount
                  /\ o.category = file.rows[i].category
                  /\ o.description = file.rows[i].description

\* C27: the CLI add flow and the add handler of the GUI ask for a non-empty
\* description before they call the store, so no row with an empty
\* description is added through a front end.
C27_FrontEndsNeedDescription ==
    (last.op \in {"cli_add", "gui_add"} /\ last.status = "ok") =>
        /\ last.txn.description # ""
        /\ \A i \in 1..Len(file.rows) : file.rows[i].description # ""

\* C28: initialize_csv is idempotent: a DataManager constructed on a file
\* that an earlier construction has initialized or migrated, whatever adds,
\* updates and deletes have run since, changes neither the backing file
\* nor <file>.backup: the rows are not numbered again and the backup of the
\* content before the migration is not overwritten.
C28_InitIdempotent ==
    [][(mgr /\ last'.op = "init") => (file' = file /\ backup' = backup)]_vars

C28_Witness ==
    /\ mgr
    /\ last.op = "init"
    /\ last.before = file
    /\ backup.exists
    /\ Len(backup.rows) = 2
    /\ Len(file.rows) = 2
    /\ file.rows[1].id = 2

\* C29: get_transaction_by_id, get_all_transactions, get_transactions,
\* get_summary, get_category_breakdown and export_to_json leave the backing
\* file as it was before the call, in every state of the store, so the same
\* call made again with no mutation in between returns an equal result.
ReadOps == {"get", "get_all", "query", "summary", "breakdown", "export"}

\* a == b of two Transactions read by two calls: the dataclass compares the
\* fields, and the nan of one read is not equal to the nan of another
SameTransaction(a, b) == a = b /\ a.description # NaN

\* the call of last made again on the file as it is now, against the
\* recorded outcome: the same exception, or an equal value (two DataFrames
\* as DataFrame.equals compares them, export_to_json returns None)
Again ==
    CASE last.op = "get" ->
            LET r == get_transaction_by_id(file, last.id)
            IN  /\ r.status = last.status
                /\ r.found = last.ok
                /\ SameTransaction(r.txn, last.txn)
      [] last.op = "get_all" ->
            LET r == get_all_transactions(file)
            IN  /\ r.status = last.status
                /\ Len(r.txns) = Len(last.rows)
                /\ \A i \in 1..Len(r.txns) :
                       SameTransaction(r.txns[i], last.rows[i])
      [] last.op = "query" ->
            LET r == get_transactions(file, last.args)
            IN  r.status = last.status /\ r.rows = last.rows
      [] last.op = "summary" ->
            LET r == get_summary(file, last.args)
            IN  r.status = last.status /\ r.summary = last.result
      [] last.op = "breakdown" ->
            LET r == get_category_breakdown(file, last.args)
            IN  r.status = last.status /\ r.breakdown = last.result
      [] last.op = "export" ->
            export_to_json(file, last.args).status = last.status
      [] OTHER -> TRUE

C29_ReadsLeaveFile ==
    (mgr /\ last.op \in ReadOps) => (file = last.before /\ Again)

\* C30: add_transaction reads the maximum id and appends its row in two
\* steps with no lock between them: whenever two writers on the same file
\* have both read before either appended and both have appended, the two
\* rows were written with the same id and the file holds that id twice.
BothReadFirst(v, w) ==
    /\ v # w
    /\ writers[v].pc = "written"
    /\ writers[w].pc = "written"
    /\ writers[v].before = writers[w].before

RowsWithId(id) == {i \in 1..Len(file.rows) : file.rows[i].id = id}

C30_RaceDuplicatesId ==
    \A v, w \in Writers :
        BothReadFirst(v, w) =>
            /\ writers[v].txn.id = writers[w].txn.id
            /\ Cardinality(RowsWithId(writers[v].txn.id)) >= 2

C30_Witness ==
    /\ BothReadFirst(1, 2)
    /\ Len(file.rows) = 2
    /\ file.rows[1].id = 1
    /\ file.rows[2].id = 1
    /\ file.rows[1].description # file.rows[2].description

====
